---------------------------- MODULE Spec2Model ----------------------------
(***************************************************************************)
(* A model of the vessel gateway (FastAPI routers in front of a Podman     *)
(* engine client).  One request at a time travels through:                 *)
(*   Receive             the router table of app/main.py                   *)
(*   AcquireSession      get_podman_client up to its yield (open + ping)   *)
(*   CallHandler         the route handler, with the engine's answers      *)
(*   iter_logs_next /    the streaming generator of stream_logs            *)
(*   Disconnect                                                            *)
(*   ReleaseSession      get_podman_client after its yield (with-exit)     *)
(*   Finish              the request is over                               *)
(* Handlers are operators from (request, engine answers) to what the       *)
(* handler did: engine calls made, faults met, log records, response.      *)
(***************************************************************************)
EXTENDS Integers, Sequences, FiniteSets, TLC

VARIABLES
    pc,        \* where the request is: idle, dep, handler, exit, done
    route,     \* the operation requested
    req,       \* the request's fields
    opened,    \* engine sessions opened for this request
    closed,    \* engine sessions closed for this request
    pings,     \* liveness probes made for this request
    probe,     \* the fault the liveness probe raised, None when it raised none
    calls,     \* engine operations invoked, in order
    raised,    \* faults the engine raised, in order
    logged,    \* log records written
    response,  \* the response sent to the caller
    stream,    \* none, open, ended, closed: the StreamingResponse body
    source,    \* the engine log source: its chunks and how it ends
    produced,  \* chunks the streaming generator has yielded
    pulls,     \* pulls made on the engine log source
    logs_in,   \* batch-log payload under test (SpecLogs)
    lines,     \* its lines (SpecLogs)
    clients,   \* the PodmanClient objects created, in order (SpecConc)
    inflight   \* the requests in flight at once, each with its client (SpecConc)

vars == <<pc, route, req, opened, closed, pings, probe, calls, raised, logged,
          response, stream, source, produced, pulls, logs_in, lines, clients,
          inflight>>

----------------------------------------------------------------------------
(* Bounds *)

\* longest byte content of a batch-log payload in SpecLogs
MaxLogLen == 4
\* longest byte content of a batch-log payload inside a request (Spec)
MaxReqLogLen == 2
\* most chunks an engine log stream holds
MaxStream == 3
\* requests in flight at the same time (SpecConc)
NumRequests == 2
\* PodmanClient objects created in one run of SpecConc
MaxClients == 3

----------------------------------------------------------------------------
(* Optional values: None is the empty tuple, Some(v) a one-element tuple *)

None == <<>>
Some(v) == <<v>>
IsNone(o) == o = <<>>
Opt(S) == {None} \cup {Some(v) : v \in S}

\* Python truthiness of an optional string: None and "" are falsy
TruthyStr(o) == o # None /\ o[1] # ""

Contains(s, x) == \E i \in 1..Len(s) : s[i] = x


----------------------------------------------------------------------------
(* Engine faults: podman.errors.  NotFound and ImageNotFound are APIErrors; *)
(* ContainerError is not.  Every fault is an Exception.                    *)

Msgs == {"m1", "m2"}            \* str(e)
Expls == {"x1", "x2"}           \* e.explanation
ExitStatuses == {1, 2}          \* ContainerError.exit_status

Fault(t, code, m, x, es) ==
    [type |-> t, status_code |-> code, msg |-> m, explanation |-> x,
     exit_status |-> es]

NotFoundFaults == {Fault("NotFound", 404, m, "x1", 0) : m \in Msgs}
ImageNotFoundFaults == {Fault("ImageNotFound", 404, m, "x1", 0) : m \in Msgs}
APIFaults ==
    {Fault("APIError", c, m, x, 0) : c \in {409, 500}, m \in Msgs, x \in Expls}
ContainerFaults ==
    {Fault("ContainerError", 0, m, "x1", es) : m \in Msgs, es \in ExitStatuses}
OtherFaults == {Fault("Exception", 0, m, "x1", 0) : m \in Msgs}

\* isinstance(e, cls) for the classes the handlers name in except clauses
IsInstance(e, cls) ==
    CASE cls = "Exception" -> TRUE
      [] cls = "APIError" -> e.type \in {"APIError", "NotFound", "ImageNotFound"}
      [] OTHER -> e.type = cls

----------------------------------------------------------------------------
(* Responses.  detail is the message as a sequence of its pieces, so that  *)
(* "the message contains the identifier" is a membership test.             *)

NoResponse == [status |-> 0, detail |-> <<>>, via |-> "none"]
HTTPException(status_code, detail) ==
    [status |-> status_code, detail |-> detail, via |-> "HTTPException"]
Returned(status_code) ==
    [status |-> status_code, detail |-> <<>>, via |-> "return"]
\* an exception no except clause took: the framework answers 500
Unhandled == [status |-> 500, detail |-> <<"Internal Server Error">>, via |-> "unhandled"]
\* no route matches the path at all
RouterNotFound == [status |-> 404, detail |-> <<"Not Found">>, via |-> "router"]
\* the path matches a route of another method only
RouterMethodNotAllowed ==
    [status |-> 405, detail |-> <<"Method Not Allowed">>, via |-> "router"]

\* what an except clause does: the response it raises and the records it logs
Raise(resp, nlogs) == [response |-> resp, logs |-> nlogs]
\* no except clause matches: the fault leaves the handler
Propagate == [response |-> Unhandled, logs |-> 0]

EngineCall(op, args) == [op |-> op, args |-> args]

\* a handler whose body makes the engine calls c1 then c2; a1, a2 are the
\* engine's answers (None: success, Some(e): raises e); exc is what the
\* handler's except clauses make of each possible fault
Done0(okResp) ==
    [calls |-> <<>>, raised |-> <<>>, response |-> okResp, logs |-> 0]
\* a handler that makes its engine call a second time when it fails
Try1_retry(c1, a1, okResp, excResult) ==
    IF a1 # None
    THEN [calls |-> <<c1, c1>>, raised |-> <<a1[1]>>,
          response |-> excResult[a1[1]].response, logs |-> excResult[a1[1]].logs]
    ELSE [calls |-> <<c1>>, raised |-> <<>>, response |-> okResp, logs |-> 0]
Try1(c1, a1, okResp, excResult) ==
    IF a1 # None
    THEN [calls |-> <<c1>>, raised |-> <<a1[1]>>,
          response |-> excResult[a1[1]].response, logs |-> excResult[a1[1]].logs]
    ELSE [calls |-> <<c1>>, raised |-> <<>>, response |-> okResp, logs |-> 0]
Try2(c1, a1, c2, a2, okResp, excResult) ==
    IF a1 # None
    THEN [calls |-> <<c1>>, raised |-> <<a1[1]>>,
          response |-> excResult[a1[1]].response, logs |-> excResult[a1[1]].logs]
    ELSE IF a2 # None
    THEN [calls |-> <<c1, c2>>, raised |-> <<a2[1]>>,
          response |-> excResult[a2[1]].response, logs |-> excResult[a2[1]].logs]
    ELSE [calls |-> <<c1, c2>>, raised |-> <<>>, response |-> okResp, logs |-> 0]

AllFaults ==
    NotFoundFaults \cup ImageNotFoundFaults \cup APIFaults \cup ContainerFaults
        \cup OtherFaults

----------------------------------------------------------------------------
(* Text and bytes.  A byte block is a sequence of byte values, a text a     *)
(* sequence of characters.  97 is "a", 10 "\n", 13 "\r"; 195 169 is the    *)
(* two-byte UTF-8 encoding of one character, written "e'" here.            *)

Bytes == {97, 10, 13, 195, 169}
Chars == {"a", "\n", "\r", "e'"}

RECURSIVE Utf8Valid(_)
Utf8Valid(bs) ==
    IF bs = <<>> THEN TRUE
    ELSE IF bs[1] \in {97, 10, 13} THEN Utf8Valid(Tail(bs))
    ELSE IF bs[1] = 195 /\ Len(bs) >= 2 /\ bs[2] = 169
         THEN Utf8Valid(SubSeq(bs, 3, Len(bs)))
    ELSE FALSE

\* bytes.decode("utf-8") of a valid block
RECURSIVE Utf8Decode(_)
Utf8Decode(bs) ==
    IF bs = <<>> THEN <<>>
    ELSE IF bs[1] = 97 THEN <<"a">> \o Utf8Decode(Tail(bs))
    ELSE IF bs[1] = 10 THEN <<"\n">> \o Utf8Decode(Tail(bs))
    ELSE IF bs[1] = 13 THEN <<"\r">> \o Utf8Decode(Tail(bs))
    ELSE <<"e'">> \o Utf8Decode(SubSeq(bs, 3, Len(bs)))

\* str.encode()
RECURSIVE Utf8Encode(_)
Utf8Encode(text) ==
    IF text = <<>> THEN <<>>
    ELSE (CASE text[1] = "a" -> <<97>>
            [] text[1] = "\n" -> <<10>>
            [] text[1] = "\r" -> <<13>>
            [] OTHER -> <<195, 169>>) \o Utf8Encode(Tail(text))

\* str.splitlines(): "\n", "\r" and "\r\n" end a line; the terminators are
\* dropped and a final terminator opens no empty last line
RECURSIVE SplitAcc(_, _)
SplitAcc(text, cur) ==
    IF text = <<>> THEN (IF cur = <<>> THEN <<>> ELSE <<cur>>)
    ELSE IF text[1] = "\r" /\ Len(text) >= 2 /\ text[2] = "\n"
         THEN <<cur>> \o SplitAcc(SubSeq(text, 3, Len(text)), <<>>)
    ELSE IF text[1] \in {"\n", "\r"}
         THEN <<cur>> \o SplitAcc(Tail(text), <<>>)
    ELSE SplitAcc(Tail(text), Append(cur, text[1]))

splitlines(text) == SplitAcc(text, <<>>)

RECURSIVE Concat(_)
Concat(seqs) == IF seqs = <<>> THEN <<>> ELSE seqs[1] \o Concat(Tail(seqs))

\* a block cut into chunks after the positions in cuts
RECURSIVE ChunksFrom(_, _, _, _)
ChunksFrom(bs, cuts, i, cur) ==
    IF i > Len(bs) THEN (IF cur = <<>> THEN <<>> ELSE <<cur>>)
    ELSE IF i \in cuts
         THEN <<Append(cur, bs[i])>> \o ChunksFrom(bs, cuts, i + 1, <<>>)
    ELSE ChunksFrom(bs, cuts, i + 1, Append(cur, bs[i]))

Chunked(bs, cuts) == ChunksFrom(bs, cuts, 1, <<>>)

SeqsUpTo(S, n) == UNION {[1..k -> S] : k \in 0..n}

----------------------------------------------------------------------------
(* app/routers/containers.py *)

\* bytes.decode raising inside a handler: a ValueError, so an Exception
UnicodeDecodeError == Fault("Exception", 0, "codec", "x1", 0)
ExcDomain == AllFaults \cup {UnicodeDecodeError}

FilterKeys == {"status", "exited", "id", "name"}

\* the filters dict built with truthiness tests: exited=0 is left out
Filters_truthy(r) ==
    [k \in {key \in FilterKeys :
                /\ r[key] # None
                /\ IF key = "exited" THEN r[key][1] # 0 ELSE r[key][1] # ""} |->
        r[k][1]]

\* the filters dict of list_containers: one key per supplied criterion
Filters(r) ==
    [k \in {key \in FilterKeys : r[key] # None} |-> r[k][1]]

list_containers_except(e) ==
    IF IsInstance(e, "APIError")
    THEN Raise(HTTPException(500, <<"Error listing containers">>), 1)
    ELSE Propagate

list_containers(r, a1) ==
    Try1(EngineCall("containers.list",
                    [all |-> r.all, since |-> None, before |-> None,
                     limit |-> 0, filters |-> Filters(r)]),
         a1, Returned(200),
         [e \in ExcDomain |-> list_containers_except(e)])

\* the optional fields of run_container forwarded when truthy
TruthyParams ==
    {"container_name", "environment", "volumes", "detach", "auto_remove",
     "privileged", "network", "ports", "user", "working_dir", "entrypoint",
     "cap_add", "cap_drop", "device_cgroup_rules", "devices", "dns",
     "dns_search", "extra_hosts", "group_add", "ipc_mode", "isolation",
     "labels", "log_driver", "log_options", "mac_address", "mem_limit",
     "mem_reservation", "memswap_limit", "pid_mode", "platform",
     "restart_policy", "security_opt", "shm_size", "stop_signal",
     "storage_opt", "sysctls", "tmpfs", "ulimits", "userns_mode", "uts_mode",
     "volume_driver", "volumes_from"}
\* the optional fields forwarded when not None
NullableParams ==
    {"init", "oom_kill_disable", "oom_score_adj", "pids_limit", "stdin_open",
     "stop_timeout", "tty"}
OptionalParams == TruthyParams \cup NullableParams

BoolParams ==
    {"detach", "auto_remove", "privileged", "init", "oom_kill_disable",
     "stdin_open", "tty"}
IntParams == {"oom_score_adj", "pids_limit", "stop_timeout"}
StrParams ==
    {"container_name", "network", "user", "working_dir", "ipc_mode",
     "isolation", "log_driver", "mac_address", "mem_limit", "mem_reservation",
     "memswap_limit", "pid_mode", "platform", "shm_size", "stop_signal",
     "userns_mode", "uts_mode", "volume_driver"}

\* the declared default of a field the request body leaves out: Body(False)
\* for detach, remove, auto_remove and privileged, Body(None) for the others
ParamDefault(p) ==
    IF p \in {"detach", "remove", "auto_remove", "privileged"}
    THEN Some(FALSE) ELSE None

\* the field as the handler receives it
ParamValue(r, p) ==
    IF p \in DOMAIN r.supplied THEN Some(r.supplied[p]) ELSE ParamDefault(p)

\* Python truthiness of a field value
Truthy(p, o) ==
    /\ o # None
    /\ CASE p \in BoolParams -> o[1] = TRUE
         [] p \in IntParams -> o[1] # 0
         [] p \in StrParams -> o[1] # ""
         [] OTHER -> o[1] # <<>>

\* every optional field tested against None only
Forwarded_not_none(r, p) == ParamValue(r, p) # None

\* every optional field tested for truthiness, the nullable ones too
Forwarded_truthy(r, p) == Truthy(p, ParamValue(r, p))

Forwarded(r, p) ==
    IF p \in NullableParams
    THEN ParamValue(r, p) # None
    ELSE Truthy(p, ParamValue(r, p))

\* the engine's name of a field
EngineKey(p) == IF p = "container_name" THEN "name" ELSE p

\* kwargs as run_container builds it
Kwargs(r) ==
    LET ps == {p \in OptionalParams : Forwarded(r, p)}
    IN  [k \in {EngineKey(p) : p \in ps} |->
            ParamValue(r, CHOOSE p \in ps : EngineKey(p) = k)[1]]

\* containers.run with the detach key passed whatever the request holds
RunArgs_detach_always(r) ==
    LET kw == Kwargs(r)
    IN  [k \in {"image", "command", "remove", "detach"} \cup DOMAIN kw |->
            CASE k = "image" -> r.image_name
              [] k = "command" -> ParamValue(r, "command")
              [] k = "remove" -> ParamValue(r, "remove")[1]
              [] k = "detach" -> ParamValue(r, "detach")[1]
              [] OTHER -> kw[k]]

\* containers.run with remove passed only when it is set
RunArgs_remove_if_set(r) ==
    LET kw == Kwargs(r)
        base == IF ParamValue(r, "remove")[1]
                THEN {"image", "command", "remove"} ELSE {"image", "command"}
    IN  [k \in base \cup DOMAIN kw |->
            CASE k = "image" -> r.image_name
              [] k = "command" -> ParamValue(r, "command")
              [] k = "remove" -> ParamValue(r, "remove")[1]
              [] OTHER -> kw[k]]

\* containers.run(image=image_name, command=command, remove=remove, **kwargs);
\* command is passed as an optional (None: Python None)
RunArgs(r) ==
    LET kw == Kwargs(r)
    IN  [k \in {"image", "command", "remove"} \cup DOMAIN kw |->
            CASE k = "image" -> r.image_name
              [] k = "command" -> ParamValue(r, "command")
              [] k = "remove" -> ParamValue(r, "remove")[1]
              [] OTHER -> kw[k]]

\* run_container without its ContainerError clause
run_container_except_generic(image_name, e) ==
    IF IsInstance(e, "ImageNotFound")
    THEN Raise(HTTPException(404, <<"Image ", image_name, " not found">>), 0)
    ELSE IF IsInstance(e, "APIError")
    THEN Raise(HTTPException(500, <<"Error running container: ", e.msg>>), 0)
    ELSE Raise(HTTPException(500, <<"Unexpected error: ", e.msg>>), 0)

run_container_except(image_name, e) ==
    IF IsInstance(e, "ImageNotFound")
    THEN Raise(HTTPException(404, <<"Image ", image_name, " not found">>), 0)
    ELSE IF IsInstance(e, "ContainerError")
    THEN Raise(HTTPException(500, <<"Container error: ", e.msg, ". Exit code: ",
                                    ToString(e.exit_status)>>), 0)
    ELSE IF IsInstance(e, "APIError")
    THEN Raise(HTTPException(500, <<"Error running container: ", e.msg>>), 0)
    ELSE Raise(HTTPException(500, <<"Unexpected error: ", e.msg>>), 0)

\* val is what containers.run returned: a container object or the output
run_container(r, a1, val) ==
    LET c1 == EngineCall("containers.run", RunArgs(r))
        exc == [e \in ExcDomain |-> run_container_except(r.image_name, e)]
        decodes == val.kind # "bytes" \/ Utf8Valid(val.data)
    IN  IF a1 = None /\ ~ParamValue(r, "detach")[1] /\ ~decodes
        THEN [calls |-> <<c1>>, raised |-> <<>>,
              response |-> exc[UnicodeDecodeError].response,
              logs |-> exc[UnicodeDecodeError].logs]
        ELSE Try1(c1, a1, Returned(200), exc)

\* delete_container with the APIError clause ahead of the NotFound clause
delete_container_except_misordered(container_id, e) ==
    IF IsInstance(e, "APIError")
    THEN IF e.status_code = 409
         THEN Raise(HTTPException(409, <<e.explanation>>), 1)
         ELSE Raise(HTTPException(500,
                <<"Error deleting container. Consider using force=True.">>), 1)
    ELSE IF IsInstance(e, "NotFound")
    THEN Raise(HTTPException(404, <<"Container ", container_id, " not found">>), 0)
    ELSE Raise(HTTPException(500, <<"Unexpected error">>), 1)

delete_container_except(container_id, e) ==
    IF IsInstance(e, "NotFound")
    THEN Raise(HTTPException(404, <<"Container ", container_id, " not found">>), 0)
    ELSE IF IsInstance(e, "APIError")
    THEN IF e.status_code = 409
         THEN Raise(HTTPException(409, <<e.explanation>>), 1)
         ELSE Raise(HTTPException(500,
                <<"Error deleting container. Consider using force=True.">>), 1)
    ELSE Raise(HTTPException(500, <<"Unexpected error">>), 1)

\* force: bool = Query(False): the flag as the handler receives it
ForceOf(r) == IF r.force = None THEN FALSE ELSE r.force[1]

\* delete_container removing by identifier with no lookup first
delete_container_no_get(r, a1, a2) ==
    Try1(EngineCall("container.remove", [id |-> r.id, force |-> ForceOf(r)]), a2,
         Returned(204),
         [e \in ExcDomain |-> delete_container_except(r.id, e)])

delete_container(r, a1, a2) ==
    Try2(EngineCall("containers.get", [id |-> r.id]), a1,
         EngineCall("container.remove", [id |-> r.id, force |-> ForceOf(r)]), a2,
         Returned(204),
         [e \in ExcDomain |-> delete_container_except(r.id, e)])

----------------------------------------------------------------------------
(* app/routers/images.py *)

\* no try around images.list(): every fault leaves the handler
get_images(r, a1) ==
    Try1(EngineCall("images.list", <<>>), a1, Returned(200),
         [e \in ExcDomain |-> Propagate])

\* pull_image answering an API fault as login_repository does
pull_image_except_unauthorized(repository, tag, e) ==
    IF IsInstance(e, "ImageNotFound")
    THEN Raise(HTTPException(404, <<"Image ", repository, ":", tag, " not found">>), 0)
    ELSE IF IsInstance(e, "APIError")
    THEN Raise(HTTPException(401, <<"Authentication failed: ", e.msg>>), 0)
    ELSE Raise(HTTPException(500, <<"Unexpected error: ", e.msg>>), 0)

pull_image_except(repository, tag, e) ==
    IF IsInstance(e, "ImageNotFound")
    THEN Raise(HTTPException(404, <<"Image ", repository, ":", tag, " not found">>), 0)
    ELSE IF IsInstance(e, "APIError")
    THEN Raise(HTTPException(500, <<"Error pulling image: ", e.msg>>), 0)
    ELSE Raise(HTTPException(500, <<"Unexpected error: ", e.msg>>), 0)

\* pull_image logging in whenever both credentials are present, empty or not
pull_image_login_if_present(r, a1, a2) ==
    LET full_repository ==
            IF TruthyStr(r.registry) THEN <<r.registry[1], "/", r.repository>>
            ELSE <<r.repository>>
        with_login == r.username # None /\ r.password # None
        login == EngineCall("login", [username |-> r.username, password |-> r.password,
                                      registry |-> r.registry])
        auth_config ==
            IF with_login
            THEN Some([username |-> r.username[1], password |-> r.password[1]])
            ELSE None
        pull == EngineCall("images.pull", [repository |-> full_repository,
                                           tag |-> r.tag, auth_config |-> auth_config])
        exc == [e \in ExcDomain |-> pull_image_except(r.repository, r.tag, e)]
    IN  IF with_login
        THEN Try2(login, a1, pull, a2, Returned(200), exc)
        ELSE Try1(pull, a2, Returned(200), exc)

pull_image(r, a1, a2) ==
    LET full_repository ==
            IF TruthyStr(r.registry) THEN <<r.registry[1], "/", r.repository>>
            ELSE <<r.repository>>
        with_login == TruthyStr(r.username) /\ TruthyStr(r.password)
        login == EngineCall("login", [username |-> r.username, password |-> r.password,
                                      registry |-> r.registry])
        auth_config ==
            IF with_login
            THEN Some([username |-> r.username[1], password |-> r.password[1]])
            ELSE None
        pull == EngineCall("images.pull", [repository |-> full_repository,
                                           tag |-> r.tag, auth_config |-> auth_config])
        exc == [e \in ExcDomain |-> pull_image_except(r.repository, r.tag, e)]
    IN  IF with_login
        THEN Try2(login, a1, pull, a2, Returned(200), exc)
        ELSE Try1(pull, a2, Returned(200), exc)

get_image_except(image_id, e) ==
    IF IsInstance(e, "ImageNotFound")
    THEN Raise(HTTPException(404, <<"Image ", image_id, " not found">>), 0)
    ELSE IF IsInstance(e, "APIError")
    THEN Raise(HTTPException(500, <<"Error retrieving image: ", e.msg>>), 0)
    ELSE Raise(HTTPException(500, <<"Unexpected error: ", e.msg>>), 0)

get_image(r, a1) ==
    Try1(EngineCall("images.get", [id |-> r.id]), a1, Returned(200),
         [e \in ExcDomain |-> get_image_except(r.id, e)])

delete_image_except(image_id, e) ==
    IF IsInstance(e, "ImageNotFound")
    THEN Raise(HTTPException(404, <<"Image ", image_id, " not found">>), 0)
    ELSE IF IsInstance(e, "APIError")
    THEN Raise(HTTPException(500, <<"Error deleting image: ", e.msg>>), 0)
    ELSE Raise(HTTPException(500, <<"Unexpected error: ", e.msg>>), 0)

\* image_id is the path segment; the handler declares no image_name
delete_image(r, a1) ==
    Try1(EngineCall("images.remove", [image |-> r.image_id[1], force |-> ForceOf(r)]),
         a1, Returned(200),
         [e \in ExcDomain |-> delete_image_except(r.image_id[1], e)])

----------------------------------------------------------------------------
(* app/routers/info.py *)

\* no try around info(): every fault leaves the handler
get_info(r, a1) ==
    Try1(EngineCall("info", <<>>), a1, Returned(200),
         [e \in ExcDomain |-> Propagate])

----------------------------------------------------------------------------
(* app/routers/login.py *)

login_repository_except(e) ==
    IF IsInstance(e, "APIError")
    THEN Raise(HTTPException(401, <<"Authentication failed: ", e.msg>>), 0)
    ELSE Raise(HTTPException(500, <<"Unexpected error: ", e.msg>>), 0)

\* registry with no default
LoginRegistry_no_default(r) == IF r.registry = None THEN "" ELSE r.registry[1]

\* registry: str = Body("docker.io")
LoginRegistry(r) == IF r.registry = None THEN "docker.io" ELSE r.registry[1]

login_repository(r, a1) ==
    Try1(EngineCall("login", [username |-> r.username, password |-> r.password,
                              registry |-> LoginRegistry(r)]),
         a1, Returned(200),
         [e \in ExcDomain |-> login_repository_except(e)])

----------------------------------------------------------------------------
(* app/routers/logs.py *)

\* A log payload is [shape, parts]: shape "bytes" or "str" with one part,
\* "iter" with any number of parts, "other" for any other object; a part is
\* [t |-> "bytes" | "str", data |-> its content].

\* the lines of one iterable part
PartLines(part) ==
    IF part.t = "bytes" THEN splitlines(Utf8Decode(part.data))
    ELSE splitlines(part.data)

RECURSIVE ExtendLines(_)
ExtendLines(parts) ==
    IF parts = <<>> THEN <<>>
    ELSE PartLines(parts[1]) \o ExtendLines(Tail(parts))

\* whether every bytes part decodes (otherwise decode raises)
Decodes(logs) ==
    \A i \in 1..Len(logs.parts) :
        logs.parts[i].t = "bytes" => Utf8Valid(logs.parts[i].data)

\* the lines get_logs_json computes from the payload, when nothing raises
BatchLines(logs) ==
    CASE logs.shape = "bytes" -> splitlines(Utf8Decode(logs.parts[1].data))
      [] logs.shape = "str" -> splitlines(logs.parts[1].data)
      [] logs.shape = "iter" -> ExtendLines(logs.parts)
      [] OTHER -> <<logs.parts[1].data>>

get_logs_json_except(container_id, e) ==
    IF IsInstance(e, "NotFound")
    THEN Raise(HTTPException(404, <<"Container ", container_id, " not found">>), 0)
    ELSE IF IsInstance(e, "APIError")
    THEN Raise(HTTPException(500, <<"Error fetching logs">>), 1)
    ELSE Raise(HTTPException(500, <<"Unexpected error">>), 1)

LogsCall(r, streaming) ==
    EngineCall("container.logs",
               [id |-> r.id, stream |-> streaming, stdout |-> TRUE, stderr |-> TRUE,
                since |-> None, tail |-> None])

\* val is the payload container.logs returned
get_logs_json(r, a1, a2, val) ==
    LET c1 == EngineCall("containers.get", [id |-> r.id])
        c2 == LogsCall(r, FALSE)
        exc == [e \in ExcDomain |-> get_logs_json_except(r.id, e)]
    IN  IF a1 = None /\ a2 = None /\ ~Decodes(val)
        THEN [calls |-> <<c1, c2>>, raised |-> <<>>,
              response |-> exc[UnicodeDecodeError].response,
              logs |-> exc[UnicodeDecodeError].logs, lines |-> <<>>]
        ELSE [lines |-> IF a1 = None /\ a2 = None THEN BatchLines(val) ELSE <<>>]
             @@ Try2(c1, a1, c2, a2, Returned(200), exc)

stream_logs_except(container_id, e) ==
    IF IsInstance(e, "NotFound")
    THEN Raise(HTTPException(404, <<"Container ", container_id, " not found">>), 0)
    ELSE IF IsInstance(e, "APIError")
    THEN Raise(HTTPException(500, <<"Error streaming logs">>), 1)
    ELSE Raise(HTTPException(500, <<"Unexpected error">>), 1)

\* the handler returns StreamingResponse(iter_logs()); nothing is pulled yet
stream_logs(r, a1, a2) ==
    Try2(EngineCall("containers.get", [id |-> r.id]), a1, LogsCall(r, TRUE), a2,
         Returned(200),
         [e \in ExcDomain |-> stream_logs_except(r.id, e)])

\* iter_logs forwarding byte chunks only: a text chunk comes out empty
StreamBytes_bytes_only(chunk) ==
    IF chunk.t = "bytes" THEN chunk.data ELSE <<>>

\* iter_logs: chunk if isinstance(chunk, bytes) else str(chunk).encode()
StreamBytes(chunk) ==
    IF chunk.t = "bytes" THEN chunk.data ELSE Utf8Encode(chunk.data)

\* b"\n[ERROR] Stream interrupted.\n"
Diagnostic == <<10, 91, 69, 82, 82, 79, 82, 93, 10>>

----------------------------------------------------------------------------
(* app/routers/pods.py *)

list_pods_except(e) ==
    IF IsInstance(e, "APIError")
    THEN Raise(HTTPException(500, <<"Failed to list pods">>), 1)
    ELSE Propagate

list_pods(r, a1) ==
    Try1(EngineCall("pods.list", [all |-> r.all]), a1, Returned(200),
         [e \in ExcDomain |-> list_pods_except(e)])

inspect_pod_except(pod_id, e) ==
    IF IsInstance(e, "NotFound")
    THEN Raise(HTTPException(404, <<"Pod '", pod_id, "' not found">>), 0)
    ELSE IF IsInstance(e, "APIError")
    THEN Raise(HTTPException(500, <<"Failed to inspect pod">>), 1)
    ELSE Propagate

inspect_pod(r, a1) ==
    Try1(EngineCall("pods.get", [id |-> r.id]), a1, Returned(200),
         [e \in ExcDomain |-> inspect_pod_except(r.id, e)])

create_pod_except(e) ==
    IF IsInstance(e, "APIError")
    THEN Raise(HTTPException(500, <<"Failed to create pod">>), 1)
    ELSE Propagate

create_pod(r, a1) ==
    Try1(EngineCall("pods.create",
                    [name |-> r.id, labels |-> <<>>, ports |-> <<>>, share |-> None]),
         a1, Returned(201),
         [e \in ExcDomain |-> create_pod_except(e)])

delete_pod_except(pod_id, e) ==
    IF IsInstance(e, "NotFound")
    THEN Raise(HTTPException(404, <<"Pod '", pod_id, "' not found">>), 0)
    ELSE IF IsInstance(e, "APIError")
    THEN IF e.status_code = 409
         THEN Raise(HTTPException(409, <<e.explanation>>), 0)
         ELSE Raise(HTTPException(500, <<"Failed to delete pod">>), 1)
    ELSE Propagate

delete_pod(r, a1, a2) ==
    Try2(EngineCall("pods.get", [id |-> r.id]), a1,
         EngineCall("pod.remove", [id |-> r.id, force |-> ForceOf(r)]), a2,
         Returned(204),
         [e \in ExcDomain |-> delete_pod_except(r.id, e)])

----------------------------------------------------------------------------
(* app/routers/volumes.py *)

list_volumes_except(e) ==
    IF IsInstance(e, "APIError")
    THEN Raise(HTTPException(500, <<"Failed to list volumes">>), 1)
    ELSE Propagate

list_volumes(r, a1) ==
    Try1(EngineCall("volumes.list", <<>>), a1, Returned(200),
         [e \in ExcDomain |-> list_volumes_except(e)])

create_volume_except(e) ==
    IF IsInstance(e, "APIError")
    THEN Raise(HTTPException(500, <<"Failed to create volume">>), 1)
    ELSE Propagate

create_volume(r, a1) ==
    Try1(EngineCall("volumes.create",
                    [name |-> r.id, driver |-> "local", labels |-> <<>>,
                     options |-> <<>>]),
         a1, Returned(201),
         [e \in ExcDomain |-> create_volume_except(e)])

inspect_volume_except(volume_name, e) ==
    IF IsInstance(e, "NotFound")
    THEN Raise(HTTPException(404, <<"Volume '", volume_name, "' not found">>), 0)
    ELSE IF IsInstance(e, "APIError")
    THEN Raise(HTTPException(500, <<"Failed to inspect volume">>), 1)
    ELSE Propagate

inspect_volume(r, a1) ==
    Try1(EngineCall("volumes.get", [id |-> r.id]), a1, Returned(200),
         [e \in ExcDomain |-> inspect_volume_except(r.id, e)])

delete_volume_except(volume_name, e) ==
    IF IsInstance(e, "NotFound")
    THEN Raise(HTTPException(404, <<"Volume '", volume_name, "' not found">>), 0)
    ELSE IF IsInstance(e, "APIError")
    THEN IF e.status_code = 409
         THEN Raise(HTTPException(409, <<e.explanation>>), 0)
         ELSE Raise(HTTPException(500, <<"Failed to delete volume">>), 1)
    ELSE Propagate

delete_volume(r, a1, a2) ==
    Try2(EngineCall("volumes.get", [id |-> r.id]), a1,
         EngineCall("volume.remove", [id |-> r.id, force |-> ForceOf(r)]), a2,
         Returned(204),
         [e \in ExcDomain |-> delete_volume_except(r.id, e)])

----------------------------------------------------------------------------
(* app/main.py: the routers the application includes, and the routes *)

IncludedRouters == {"images", "login", "containers", "info", "logs"}

ContainerRoutes == {"list_containers", "run_container", "delete_container"}
ImageRoutes == {"get_images", "pull_image", "get_image", "delete_image"}
LogRoutes == {"get_logs_json", "stream_logs"}
PodRoutes == {"list_pods", "inspect_pod", "create_pod", "delete_pod"}
VolumeRoutes == {"list_volumes", "create_volume", "inspect_volume", "delete_volume"}
Routes ==
    ContainerRoutes \cup ImageRoutes \cup LogRoutes \cup PodRoutes
        \cup VolumeRoutes \cup {"get_info", "login_repository"}

RouterOf(rt) ==
    CASE rt \in ContainerRoutes -> "containers"
      [] rt \in ImageRoutes -> "images"
      [] rt \in LogRoutes -> "logs"
      [] rt \in PodRoutes -> "pods"
      [] rt \in VolumeRoutes -> "volumes"
      [] rt = "get_info" -> "info"
      [] OTHER -> "login"

----------------------------------------------------------------------------
(* The requests a caller can send and the answers the engine can give *)

Ids == {"id1", "id2"}
NoFields == [none |-> TRUE]

\* the values a caller can give a field of a run request: a falsy and a
\* truthy one of the field's type
ParamValues(p) ==
    CASE p \in BoolParams \cup {"remove"} -> BOOLEAN
      [] p \in IntParams -> {0, 5}
      [] p \in StrParams -> {"", "n1"}
      [] p = "command" -> {"cmd"}
      [] OTHER -> {<<>>, <<"v">>}

\* bodies of run requests, as the fields the caller supplied: none, any one
\* field, or detach=true with one nullable field, or detach with remove
RunSupplied ==
    {<<>>}
    \cup UNION {[{p} -> ParamValues(p)] : p \in OptionalParams \cup {"command", "remove"}}
    \cup UNION {{[k \in {"detach", q} |-> IF k = "detach" THEN TRUE ELSE v] :
                    v \in ParamValues(q)} : q \in NullableParams \cup {"remove"}}

Requests(rt) ==
    CASE rt = "list_containers" ->
            [all : BOOLEAN, status : Opt({"running"}), exited : Opt({0, 1}),
             id : Opt({"", "id1"}), name : Opt({"n1"})]
      [] rt = "run_container" ->
            [image_name : Ids, supplied : RunSupplied]
      [] rt \in {"delete_container", "delete_pod", "delete_volume"} ->
            [id : Ids, force : Opt(BOOLEAN)]
      [] rt = "pull_image" ->
            [repository : {"repo"}, tag : {"latest"}, registry : Opt({"reg"}),
             username : Opt({"", "u"}), password : Opt({"", "p"})]
      [] rt = "delete_image" ->
            [image_id : Opt(Ids), image_name : Opt({"n1"}), force : Opt(BOOLEAN)]
      [] rt = "login_repository" ->
            [username : {"u"}, password : {"p"}, registry : Opt({"reg"})]
      [] rt \in {"get_image", "get_logs_json", "stream_logs", "inspect_pod",
                 "create_pod", "inspect_volume", "create_volume"} ->
            [id : Ids]
      [] rt = "list_pods" -> [all : BOOLEAN]
      [] OTHER -> {NoFields}

\* the not-found fault of the engine calls a route makes: NotFound for
\* containers, pods and volumes, ImageNotFound for images
NotFoundOf(rt) ==
    CASE rt \in {"delete_container", "get_logs_json", "stream_logs", "inspect_pod",
                 "delete_pod", "inspect_volume", "delete_volume"} -> NotFoundFaults
      [] rt \in {"run_container", "pull_image", "get_image", "delete_image"} ->
            ImageNotFoundFaults
      [] OTHER -> {}

\* the faults the engine calls of a route can raise
EngineFaults(rt) ==
    NotFoundOf(rt) \cup APIFaults \cup OtherFaults
        \cup (IF rt = "run_container" THEN ContainerFaults ELSE {})

\* the faults of the second engine call, for the handlers that make two
TwoCallRoutes ==
    {"delete_container", "pull_image", "get_logs_json", "stream_logs",
     "delete_pod", "delete_volume"}
SecondFaults(rt) == IF rt \in TwoCallRoutes THEN EngineFaults(rt) ELSE {}

BytePart(bs) == [t |-> "bytes", data |-> bs]
StrPart(text) == [t |-> "str", data |-> text]
PartsOf(chunks, t) == [i \in 1..Len(chunks) |-> [t |-> t, data |-> chunks[i]]]

\* the payloads container.logs(stream=False) can return, content up to n long
Payloads(n) ==
    {[shape |-> "bytes", parts |-> <<BytePart(bs)>>] : bs \in SeqsUpTo(Bytes, n)}
    \cup {[shape |-> "str", parts |-> <<StrPart(tx)>>] : tx \in SeqsUpTo(Chars, n)}
    \cup UNION {{[shape |-> "iter", parts |-> PartsOf(Chunked(bs, cuts), "bytes")] :
                    cuts \in SUBSET (1..(Len(bs) - 1))} : bs \in SeqsUpTo(Bytes, n)}
    \cup UNION {{[shape |-> "iter", parts |-> PartsOf(Chunked(tx, cuts), "str")] :
                    cuts \in SUBSET (1..(Len(tx) - 1))} : tx \in SeqsUpTo(Chars, n)}
    \cup {[shape |-> "other", parts |-> <<StrPart(<<"a">>)>>]}

\* the chunks an engine log stream yields, and how it ends
StreamChunks == {BytePart(<<97, 10>>), StrPart(<<"a">>), StrPart(<<"e'">>)}
Sources == [chunks : SeqsUpTo(StreamChunks, MaxStream), ending : {"end", "raise"}]

\* what containers.run can return
RunResults ==
    {[kind |-> "container", data |-> <<>>], [kind |-> "bytes", data |-> <<97>>],
     [kind |-> "bytes", data |-> <<195>>]}

Values(rt) ==
    CASE rt = "run_container" -> RunResults
      [] rt = "get_logs_json" -> Payloads(MaxReqLogLen)
      [] rt = "stream_logs" -> Sources
      [] OTHER -> {None}

\* the handler of a route applied to a request, the engine's answers to its
\* first and second engine call, and the value the engine returned
Handle(rt, r, a1, a2, val) ==
    CASE rt = "list_containers" -> list_containers(r, a1)
      [] rt = "run_container" -> run_container(r, a1, val)
      [] rt = "delete_container" -> delete_container(r, a1, a2)
      [] rt = "get_images" -> get_images(r, a1)
      [] rt = "pull_image" -> pull_image(r, a1, a2)
      [] rt = "get_image" -> get_image(r, a1)
      [] rt = "delete_image" -> delete_image(r, a1)
      [] rt = "get_info" -> get_info(r, a1)
      [] rt = "login_repository" -> login_repository(r, a1)
      [] rt = "get_logs_json" -> get_logs_json(r, a1, a2, val)
      [] rt = "stream_logs" -> stream_logs(r, a1, a2)
      [] rt = "list_pods" -> list_pods(r, a1)
      [] rt = "inspect_pod" -> inspect_pod(r, a1)
      [] rt = "create_pod" -> create_pod(r, a1)
      [] rt = "delete_pod" -> delete_pod(r, a1, a2)
      [] rt = "list_volumes" -> list_volumes(r, a1)
      [] rt = "create_volume" -> create_volume(r, a1)
      [] rt = "inspect_volume" -> inspect_volume(r, a1)
      [] OTHER -> delete_volume(r, a1, a2)

\* the router's answer to a request, None when a handler takes it:
\* routers the application does not include have no routes (404); a DELETE
\* on /api/images without the {image_id} segment matches only GET "" (405)
Route(rt, r) ==
    IF RouterOf(rt) \notin IncludedRouters THEN Some(RouterNotFound)
    ELSE IF rt = "delete_image" /\ r.image_id = None THEN Some(RouterMethodNotAllowed)
    ELSE None

----------------------------------------------------------------------------
(* app/dependencies.py: get_podman_client *)

\* app/settings.py: the configured engine endpoint
podman_socket == "unix:///run/podman/podman.sock"

\* client.ping() returns (None) or raises: an APIError, or something else
PingFaults == {Fault("APIError", 500, m, "x1", 0) : m \in Msgs} \cup OtherFaults
PingAnswers == Opt(PingFaults)

\* get_podman_client without the with block: a failed ping leaves the
\* client open
get_podman_client_leak(ping) ==
    CASE ping = None ->
            [yielded |-> TRUE, closed |-> 0, logs |-> 0, response |-> NoResponse]
      [] ping # None /\ IsInstance(ping[1], "APIError") ->
            [yielded |-> FALSE, closed |-> 0, logs |-> 1,
             response |-> HTTPException(503,
                <<"Cannot connect to podman socket at ", podman_socket>>)]
      [] OTHER ->
            [yielded |-> FALSE, closed |-> 0, logs |-> 0, response |-> Unhandled]

\* the generator up to its yield: open the client, ping; a failed ping
\* leaves the with block, which closes the client
get_podman_client(ping) ==
    CASE ping = None ->
            [yielded |-> TRUE, closed |-> 0, logs |-> 0, response |-> NoResponse]
      [] ping # None /\ IsInstance(ping[1], "APIError") ->
            [yielded |-> FALSE, closed |-> 1, logs |-> 1,
             response |-> HTTPException(503,
                <<"Cannot connect to podman socket at ", podman_socket>>)]
      [] OTHER ->
            [yielded |-> FALSE, closed |-> 1, logs |-> 0, response |-> Unhandled]

\* the generator after its yield: the with block ends and closes the client
ClientExit(n) == n + 1

----------------------------------------------------------------------------
(* The request state machine *)

Init ==
    /\ pc = "idle"
    /\ route = "none"
    /\ req = NoFields
    /\ opened = 0
    /\ closed = 0
    /\ pings = 0
    /\ probe = None
    /\ calls = <<>>
    /\ raised = <<>>
    /\ logged = 0
    /\ response = NoResponse
    /\ stream = "none"
    /\ source = [chunks |-> <<>>, ending |-> "end"]
    /\ produced = <<>>
    /\ pulls = 0
    /\ logs_in = None
    /\ lines = <<>>
    /\ clients = <<>>
    /\ inflight = <<>>

\* a request arrives and the router table decides whether a handler runs
Receive ==
    /\ pc = "idle"
    /\ \E rt \in Routes : \E r \in Requests(rt) :
        /\ route' = rt
        /\ req' = r
        /\ IF Route(rt, r) = None
           THEN pc' = "dep" /\ response' = response
           ELSE pc' = "done" /\ response' = Route(rt, r)[1]
    /\ UNCHANGED <<opened, closed, pings, probe, calls, raised, logged, stream,
                   source, produced, pulls, logs_in, lines>>
    /\ UNCHANGED <<clients, inflight>>

\* Depends(get_podman_client): the generator runs up to its yield
AcquireSession ==
    /\ pc = "dep"
    /\ \E ping \in PingAnswers :
        LET dep == get_podman_client(ping)
        IN  /\ opened' = opened + 1
            /\ pings' = pings + 1
            /\ probe' = ping
            /\ closed' = closed + dep.closed
            /\ logged' = logged + dep.logs
            /\ response' = dep.response
            /\ pc' = IF dep.yielded THEN "handler" ELSE "done"
    /\ UNCHANGED <<route, req, calls, raised, stream, source, produced, pulls,
                   logs_in, lines>>
    /\ UNCHANGED <<clients, inflight>>

\* the route handler runs to its return or to the exception that ends it
CallHandler ==
    /\ pc = "handler"
    /\ \E a1 \in Opt(EngineFaults(route)), a2 \in Opt(SecondFaults(route)),
          val \in Values(route) :
        LET res == Handle(route, req, a1, a2, val)
            streams == route = "stream_logs" /\ res.response.via = "return"
        IN  /\ calls' = res.calls
            /\ raised' = res.raised
            /\ logged' = logged + res.logs
            /\ response' = res.response
            /\ lines' = IF route = "get_logs_json" THEN res.lines ELSE lines
            /\ stream' = IF streams THEN "open" ELSE stream
            /\ source' = IF streams THEN val ELSE source
    /\ pc' = "exit"
    /\ UNCHANGED <<route, req, opened, closed, pings, probe, produced, pulls,
                   logs_in>>
    /\ UNCHANGED <<clients, inflight>>

\* iter_logs without its except clause: the source's fault leaves the
\* generator and no diagnostic chunk is yielded
iter_logs_next_uncaught ==
    /\ stream = "open"
    /\ pulls' = pulls + 1
    /\ IF pulls < Len(source.chunks)
       THEN /\ produced' = Append(produced, StreamBytes(source.chunks[pulls + 1]))
            /\ UNCHANGED stream
       ELSE IF source.ending = "raise"
       THEN stream' = "failed" /\ UNCHANGED produced
       ELSE stream' = "ended" /\ UNCHANGED produced
    /\ UNCHANGED <<pc, route, req, opened, closed, pings, probe, calls, raised,
                   logged, response, source, logs_in, lines>>
    /\ UNCHANGED <<clients, inflight>>

\* iter_logs still running after the transport closed it
iter_logs_next_after_close ==
    /\ stream \in {"open", "diag", "closed"}
    /\ IF stream = "diag"
       THEN /\ stream' = "ended"
            /\ UNCHANGED <<produced, pulls, logged>>
       ELSE /\ pulls' = pulls + 1
            /\ IF pulls < Len(source.chunks)
               THEN /\ produced' = Append(produced, StreamBytes(source.chunks[pulls + 1]))
                    /\ UNCHANGED <<stream, logged>>
               ELSE IF source.ending = "raise"
               THEN /\ produced' = Append(produced, Diagnostic)
                    /\ logged' = logged + 1
                    /\ stream' = "diag"
               ELSE /\ stream' = "ended"
                    /\ UNCHANGED <<produced, logged>>
    /\ UNCHANGED <<pc, route, req, opened, closed, pings, probe, calls, raised,
                   response, source, logs_in, lines>>
    /\ UNCHANGED <<clients, inflight>>

\* iter_logs returning after its first chunk
iter_logs_next_one_chunk ==
    /\ stream \in {"open", "diag"}
    /\ IF stream = "diag" \/ pulls >= 1
       THEN /\ stream' = "ended"
            /\ UNCHANGED <<produced, pulls, logged>>
       ELSE /\ pulls' = pulls + 1
            /\ IF pulls < Len(source.chunks)
               THEN /\ produced' = Append(produced, StreamBytes(source.chunks[pulls + 1]))
                    /\ UNCHANGED <<stream, logged>>
               ELSE IF source.ending = "raise"
               THEN /\ produced' = Append(produced, Diagnostic)
                    /\ logged' = logged + 1
                    /\ stream' = "diag"
               ELSE /\ stream' = "ended"
                    /\ UNCHANGED <<produced, logged>>
    /\ UNCHANGED <<pc, route, req, opened, closed, pings, probe, calls, raised,
                   response, source, logs_in, lines>>
    /\ UNCHANGED <<clients, inflight>>

\* the transport pulls the next chunk from iter_logs(): the generator pulls
\* the engine source once and yields, or catches its fault and yields the
\* diagnostic chunk, or returns
iter_logs_next ==
    /\ stream \in {"open", "diag"}
    /\ IF stream = "diag"
       THEN \* the generator resumes after the diagnostic chunk and returns
            /\ stream' = "ended"
            /\ UNCHANGED <<produced, pulls, logged>>
       ELSE /\ pulls' = pulls + 1
            /\ IF pulls < Len(source.chunks)
               THEN /\ produced' = Append(produced, StreamBytes(source.chunks[pulls + 1]))
                    /\ UNCHANGED <<stream, logged>>
               ELSE IF source.ending = "raise"
               THEN \* except Exception: log, yield the diagnostic chunk
                    /\ produced' = Append(produced, Diagnostic)
                    /\ logged' = logged + 1
                    /\ stream' = "diag"
               ELSE /\ stream' = "ended"
                    /\ UNCHANGED <<produced, logged>>
    /\ UNCHANGED <<pc, route, req, opened, closed, pings, probe, calls, raised,
                   response, source, logs_in, lines>>
    /\ UNCHANGED <<clients, inflight>>

\* the caller goes away: the transport closes the generator (GeneratorExit
\* at the yield, which except Exception does not catch)
Disconnect ==
    /\ stream \in {"open", "diag"}
    /\ stream' = "closed"
    /\ UNCHANGED <<pc, route, req, opened, closed, pings, probe, calls, raised,
                   logged, response, source, produced, pulls, logs_in, lines>>
    /\ UNCHANGED <<clients, inflight>>

\* the framework resumes get_podman_client after the handler is over; for a
\* streaming response that is before the body is sent or after it is finished
ReleaseSession ==
    /\ pc = "exit"
    /\ stream = "none" \/ pulls = 0 \/ stream \in {"ended", "closed"}
    /\ closed' = ClientExit(closed)
    /\ pc' = "done"
    /\ UNCHANGED <<route, req, opened, pings, probe, calls, raised, logged,
                   response, stream, source, produced, pulls, logs_in, lines>>
    /\ UNCHANGED <<clients, inflight>>

RequestEnded == pc = "done" /\ stream \notin {"open", "diag"}

\* the request is over; the next one starts from scratch
Finish ==
    /\ RequestEnded
    /\ pc' = "idle"
    /\ route' = "none"
    /\ req' = NoFields
    /\ opened' = 0
    /\ closed' = 0
    /\ pings' = 0
    /\ probe' = None
    /\ calls' = <<>>
    /\ raised' = <<>>
    /\ logged' = 0
    /\ response' = NoResponse
    /\ stream' = "none"
    /\ source' = [chunks |-> <<>>, ending |-> "end"]
    /\ produced' = <<>>
    /\ pulls' = 0
    /\ lines' = <<>>
    /\ UNCHANGED logs_in
    /\ UNCHANGED <<clients, inflight>>

Next ==
    \/ Receive
    \/ AcquireSession
    \/ CallHandler
    \/ iter_logs_next
    \/ Disconnect
    \/ ReleaseSession
    \/ Finish

Spec == Init /\ [][Next]_vars

\* the caller of a stream keeps reading: the transport goes on iterating
\* iter_logs() for as long as the generator has something to give
SpecLive == Spec /\ WF_vars(iter_logs_next)

----------------------------------------------------------------------------
(* Batch log retrieval on its own: the payload is drawn, the handler applied *)

InitLogs ==
    /\ pc = "batch"
    /\ logs_in \in {Some(pl) : pl \in Payloads(MaxLogLen)}
    /\ route = "get_logs_json"
    /\ req = [id |-> "id1"]
    /\ opened = 0
    /\ closed = 0
    /\ pings = 0
    /\ probe = None
    /\ calls = <<>>
    /\ raised = <<>>
    /\ logged = 0
    /\ response = NoResponse
    /\ stream = "none"
    /\ source = [chunks |-> <<>>, ending |-> "end"]
    /\ produced = <<>>
    /\ pulls = 0
    /\ lines = <<>>
    /\ clients = <<>>
    /\ inflight = <<>>

\* get_logs_json with the engine returning the payload
ApplyBatch ==
    /\ pc = "batch"
    /\ LET res == get_logs_json(req, None, None, logs_in[1])
       IN  /\ lines' = res.lines
           /\ response' = res.response
           /\ calls' = res.calls
           /\ logged' = logged + res.logs
    /\ pc' = "batched"
    /\ UNCHANGED <<route, req, opened, closed, pings, probe, raised, stream, source,
                   produced, pulls, logs_in>>
    /\ UNCHANGED <<clients, inflight>>

NextLogs == ApplyBatch

SpecLogs == InitLogs /\ [][NextLogs]_vars

----------------------------------------------------------------------------
(* The delete handlers on their own: the request is drawn, the handler      *)
(* applied to it with every answer of the engine to its get and its remove  *)

DeleteRoutes == {"delete_container", "delete_pod", "delete_volume"}

InitDelete ==
    /\ pc = "delete"
    /\ route \in DeleteRoutes
    /\ req \in Requests(route)
    /\ opened = 0
    /\ closed = 0
    /\ pings = 0
    /\ probe = None
    /\ calls = <<>>
    /\ raised = <<>>
    /\ logged = 0
    /\ response = NoResponse
    /\ stream = "none"
    /\ source = [chunks |-> <<>>, ending |-> "end"]
    /\ produced = <<>>
    /\ pulls = 0
    /\ logs_in = None
    /\ lines = <<>>
    /\ clients = <<>>
    /\ inflight = <<>>

\* the handler of the route runs to its return or its exception
ApplyDelete ==
    /\ pc = "delete"
    /\ \E a1 \in Opt(EngineFaults(route)), a2 \in Opt(SecondFaults(route)) :
        LET res == Handle(route, req, a1, a2, None)
        IN  /\ calls' = res.calls
            /\ raised' = res.raised
            /\ logged' = logged + res.logs
            /\ response' = res.response
    /\ pc' = "deleted"
    /\ UNCHANGED <<route, req, opened, closed, pings, probe, stream, source,
                   produced, pulls, logs_in, lines, clients, inflight>>

NextDelete == ApplyDelete

SpecDelete == InitDelete /\ [][NextDelete]_vars

----------------------------------------------------------------------------
(* Several requests at once.  Handlers are plain functions, which the       *)
(* framework runs on worker threads, so requests interleave; each resolves  *)
(* Depends(get_podman_client) for itself.  A client is [owner, open, users]: *)
(* the request whose generator created it, whether it is open, and the      *)
(* requests whose handler made an engine call on it.                        *)

Requesters == 1..NumRequests

InitConc ==
    /\ pc = "idle"
    /\ route = "none"
    /\ req = NoFields
    /\ opened = 0
    /\ closed = 0
    /\ pings = 0
    /\ probe = None
    /\ calls = <<>>
    /\ raised = <<>>
    /\ logged = 0
    /\ response = NoResponse
    /\ stream = "none"
    /\ source = [chunks |-> <<>>, ending |-> "end"]
    /\ produced = <<>>
    /\ pulls = 0
    /\ logs_in = None
    /\ lines = <<>>
    /\ clients = <<>>
    /\ inflight = [q \in Requesters |-> [pc |-> "idle", held |-> 0]]

\* a request arrives
StartC(q) ==
    /\ inflight[q].pc = "idle"
    /\ Len(clients) < MaxClients
    /\ inflight' = [inflight EXCEPT ![q].pc = "dep"]
    /\ UNCHANGED <<pc, route, req, opened, closed, pings, probe, calls, raised,
                   logged, response, stream, source, produced, pulls, logs_in,
                   lines, clients>>

\* one module-level client that every request is handed
AcquireC_shared(q) ==
    /\ inflight[q].pc = "dep"
    /\ \E ping \in PingAnswers :
        LET dep == get_podman_client(ping)
            shared == [owner |-> q, open |-> dep.closed = 0, users |-> {}]
        IN  /\ clients' = IF clients = <<>> THEN <<shared>>
                           ELSE [clients EXCEPT ![1].open = dep.closed = 0]
            /\ inflight' = [inflight EXCEPT
                    ![q] = [pc |-> IF dep.yielded THEN "handler" ELSE "done",
                            held |-> 1]]
    /\ UNCHANGED <<pc, route, req, opened, closed, pings, probe, calls, raised,
                   logged, response, stream, source, produced, pulls, logs_in,
                   lines>>

\* get_podman_client up to its yield: PodmanClient(...) makes a new client
\* for this request; a failed ping closes it
AcquireC(q) ==
    /\ inflight[q].pc = "dep"
    /\ \E ping \in PingAnswers :
        LET dep == get_podman_client(ping)
        IN  /\ clients' = Append(clients,
                    [owner |-> q, open |-> dep.closed = 0, users |-> {}])
            /\ inflight' = [inflight EXCEPT
                    ![q] = [pc |-> IF dep.yielded THEN "handler" ELSE "done",
                            held |-> Len(clients) + 1]]
    /\ UNCHANGED <<pc, route, req, opened, closed, pings, probe, calls, raised,
                   logged, response, stream, source, produced, pulls, logs_in,
                   lines>>

\* the handler makes its engine calls on the client it was handed
UseC(q) ==
    /\ inflight[q].pc = "handler"
    /\ clients' = [clients EXCEPT ![inflight[q].held].users = @ \cup {q}]
    /\ inflight' = [inflight EXCEPT ![q].pc = "exit"]
    /\ UNCHANGED <<pc, route, req, opened, closed, pings, probe, calls, raised,
                   logged, response, stream, source, produced, pulls, logs_in,
                   lines>>

\* get_podman_client after its yield: the with block closes the client
ReleaseC(q) ==
    /\ inflight[q].pc = "exit"
    /\ clients' = [clients EXCEPT ![inflight[q].held].open = FALSE]
    /\ inflight' = [inflight EXCEPT ![q].pc = "done"]
    /\ UNCHANGED <<pc, route, req, opened, closed, pings, probe, calls, raised,
                   logged, response, stream, source, produced, pulls, logs_in,
                   lines>>

\* the request is over
FinishC(q) ==
    /\ inflight[q].pc = "done"
    /\ inflight' = [inflight EXCEPT ![q] = [pc |-> "idle", held |-> 0]]
    /\ UNCHANGED <<pc, route, req, opened, closed, pings, probe, calls, raised,
                   logged, response, stream, source, produced, pulls, logs_in,
                   lines, clients>>

NextConc ==
    \/ \E q \in Requesters : StartC(q)
    \/ \E q \in Requesters : AcquireC(q)
    \/ \E q \in Requesters : UseC(q)
    \/ \E q \in Requesters : ReleaseC(q)
    \/ \E q \in Requesters : FinishC(q)

SpecConc == InitConc /\ [][NextConc]_vars

----------------------------------------------------------------------------
(* Properties *)

\* the handler ran, or the router answered in its place
HandlerRan == pc \in {"exit", "done"} /\ pings = 1 /\ probe = None
Rejected == pc = "done" /\ pings = 0

\* C1: a request that acquired an engine session has released it exactly
\* once when it ends, whatever the exit path (normal return, classified
\* fault, failed probe, unhandled exception); a session is never released
\* twice and never released without having been acquired
C1_ReleasedExactlyOnce ==
    /\ closed <= opened
    /\ opened <= 1
    /\ RequestEnded => closed = opened

\* an unhandled exception in the handler, and the session released once
C1_Witness ==
    /\ RequestEnded
    /\ opened = 1 /\ closed = 1
    /\ calls # <<>> /\ response.via = "unhandled"

\* C2: whenever the liveness probe fails, the request ends with 503, the
\* message names the configured endpoint and holds nothing of the fault,
\* and no engine operation is invoked
C2_ProbeFailureIs503 ==
    probe # None =>
        /\ response.status = 503
        /\ Contains(response.detail, podman_socket)
        /\ ~Contains(response.detail, probe[1].msg)
        /\ calls = <<>>

\* the source of a log stream has raised in mid-iteration
Interrupted ==
    /\ route = "stream_logs" /\ stream # "none"
    /\ source.ending = "raise" /\ pulls > Len(source.chunks)

ForwardedChunks(src) == [i \in 1..Len(src.chunks) |-> StreamBytes(src.chunks[i])]

\* C3: in log streaming, once the engine source has raised, what was
\* produced is every chunk the source yielded before, in order, then the
\* one diagnostic chunk and nothing after it; the stream ends and the
\* response already sent stays as it was
C3_StreamFaultContained ==
    Interrupted =>
        /\ produced = ForwardedChunks(source) \o <<Diagnostic>>
        /\ stream \in {"diag", "ended", "closed"}
        /\ response = Returned(200)

\* the source yields two chunks, raises, and the stream has ended
C3_Witness ==
    /\ Interrupted
    /\ Len(source.chunks) = 2
    /\ stream = "ended"
    /\ Len(produced) = 3

\* the bytes of an iterable payload, joined
WholeBytes(logs) == Concat([i \in 1..Len(logs.parts) |-> logs.parts[i].data])

\* C4: batch log retrieval of an iterable payload gives the lines of the
\* concatenated parts, so the same for every chunking of the same bytes
C4_IterableConcatenated ==
    (/\ pc = "batched"
     /\ logs_in[1].shape = "iter"
     /\ \A i \in 1..Len(logs_in[1].parts) : logs_in[1].parts[i].t = "bytes"
     /\ Utf8Valid(WholeBytes(logs_in[1])))
    => /\ response = Returned(200)
       /\ lines = splitlines(Utf8Decode(WholeBytes(logs_in[1])))

\* C5: image delete by optional id and optional name: exactly one supplied,
\* the engine remove is called with it; both or neither, 400 and no remove
C5_DeleteImageResolution ==
    (route = "delete_image" /\ (HandlerRan \/ Rejected)) =>
        LET id == req.image_id
            name == req.image_name
        IN  IF (id = None) # (name = None)
            THEN calls = <<EngineCall("images.remove",
                            [image |-> IF id # None THEN id[1] ELSE name[1],
                             force |-> ForceOf(req)])>>
            ELSE response.status = 400 /\ calls = <<>>

\* the handlers that remove a resource
RemovePaths == {"delete_container", "delete_image", "delete_pod", "delete_volume"}

\* C6: on every remove path an API fault with status code 409 gives 409
\* with the engine's explanation as the message
C6_ConflictPassedThrough ==
    (/\ route \in RemovePaths /\ raised # <<>>
     /\ raised[1].type = "APIError" /\ raised[1].status_code = 409)
    => /\ response.status = 409
       /\ response.detail = <<raised[1].explanation>>

\* the handlers that look a resource up by identifier
NotFoundPaths ==
    {"delete_container", "get_image", "delete_image", "get_logs_json",
     "stream_logs", "inspect_pod", "delete_pod", "inspect_volume", "delete_volume"}

RequestedId == IF route = "delete_image" THEN req.image_id[1] ELSE req.id

\* C7: on every get, remove, inspect and log path a not-found fault of the
\* engine gives 404 with the requested identifier in the message
C7_NotFoundIs404 ==
    (/\ route \in NotFoundPaths /\ raised # <<>>
     /\ raised[1].type \in {"NotFound", "ImageNotFound"})
    => /\ response.status = 404
       /\ response.via = "HTTPException"
       /\ Contains(response.detail, RequestedId)

\* container delete: the get succeeds, the remove raises NotFound
C7_Witness ==
    /\ route = "delete_container"
    /\ Len(calls) = 2
    /\ raised # <<>> /\ raised[1].type = "NotFound"
    /\ response.status = 404
    /\ Contains(response.detail, req.id)

\* C8: whatever fault an engine call raises, the handler catches it and
\* answers with a classified outcome
C8_EveryFaultClassified ==
    raised # <<>> => response.via = "HTTPException"

\* C9: the message of a 500 outcome is a fixed text, the same whatever the
\* text of the engine's exception
C9_GenericServerMessage ==
    (raised # <<>> /\ response.status = 500)
    => /\ ~Contains(response.detail, raised[1].msg)
       /\ ~Contains(response.detail, raised[1].explanation)

\* the status of the first class of the order that the fault matches
ExpectedStatus(rt, e) ==
    IF e.type \in {"NotFound", "ImageNotFound"} THEN 404
    ELSE IF e.type = "ContainerError" /\ rt = "run_container" THEN 500
    ELSE IF e.type = "APIError" /\ e.status_code = 409 THEN 409
    ELSE 500

\* C10: a fault gets the outcome of the first class it matches, in the order
\* not-found, execution fault of a run, API fault 409, other API fault, any
\* other fault, on every route
C10_FirstMatchWins ==
    raised # <<>> =>
        /\ response.via = "HTTPException"
        /\ response.status = ExpectedStatus(route, raised[1])

\* C12: an optional run parameter the request does not supply is not a key
\* of the arguments of the engine run call; with no optional parameter
\* supplied the keys are image, command and remove only
C12_AbsentNeverForwarded ==
    (route = "run_container" /\ calls # <<>>) =>
        LET args == calls[1].args
        IN  /\ \A p \in OptionalParams :
                p \notin DOMAIN req.supplied => EngineKey(p) \notin DOMAIN args
            /\ DOMAIN req.supplied \cap OptionalParams = {}
                => DOMAIN args = {"image", "command", "remove"}

\* a run with a name and nothing else: the name is forwarded, detach is not
C12_Witness ==
    /\ route = "run_container" /\ calls # <<>>
    /\ DOMAIN req.supplied = {"container_name"}
    /\ DOMAIN calls[1].args = {"image", "command", "remove", "name"}

\* C13: a nullable run parameter the caller sets, to false or 0 as well, is
\* forwarded to the engine run call with the supplied value
C13_NullableForwarded ==
    (route = "run_container" /\ calls # <<>>) =>
        \A p \in NullableParams \cap DOMAIN req.supplied :
            /\ p \in DOMAIN calls[1].args
            /\ calls[1].args[p] = req.supplied[p]

\* a run with pids_limit=0 and detach=true: the engine gets pids_limit=0
C13_Witness ==
    /\ route = "run_container" /\ calls # <<>>
    /\ DOMAIN req.supplied = {"detach", "pids_limit"}
    /\ req.supplied["pids_limit"] = 0
    /\ calls[1].args["pids_limit"] = 0

\* C14: every run call passes image, command (None when absent) and remove
\* (False when absent); a request of an image and detach=true calls the
\* engine with exactly image, command=None, remove=False, detach=True
C14_RequiredAlwaysPassed ==
    (route = "run_container" /\ calls # <<>>) =>
        LET args == calls[1].args
            given == req.supplied
        IN  /\ calls[1].op = "containers.run"
            /\ {"image", "command", "remove"} \subseteq DOMAIN args
            /\ args["image"] = req.image_name
            /\ args["command"] =
                    (IF "command" \in DOMAIN given THEN Some(given["command"]) ELSE None)
            /\ args["remove"] =
                    (IF "remove" \in DOMAIN given THEN given["remove"] ELSE FALSE)
            /\ (DOMAIN given = {"detach"} /\ given["detach"] = TRUE)
                => args = [k \in {"image", "command", "remove", "detach"} |->
                            CASE k = "image" -> req.image_name
                              [] k = "command" -> None
                              [] k = "remove" -> FALSE
                              [] OTHER -> TRUE]

\* the run of an image with detach=true has been called
C14_Witness ==
    /\ route = "run_container" /\ calls # <<>>
    /\ DOMAIN req.supplied = {"detach"} /\ req.supplied["detach"] = TRUE
    /\ DOMAIN calls[1].args = {"image", "command", "remove", "detach"}
    /\ response = Returned(200)

\* C15: the filter map of the container list call has a key for status,
\* exited, id or name exactly when the caller supplied that parameter, with
\* the supplied value, a zero value included
C15_FiltersFromSupplied ==
    (route = "list_containers" /\ calls # <<>>) =>
        LET filters == calls[1].args.filters
        IN  /\ DOMAIN filters = {k \in FilterKeys : req[k] # None}
            /\ \A k \in DOMAIN filters : filters[k] = req[k][1]

\* a list with exited=0 and nothing else: the one key is exited, with 0
C15_Witness ==
    /\ route = "list_containers" /\ calls # <<>>
    /\ req.exited = Some(0) /\ req.status = None /\ req.id = None /\ req.name = None
    /\ DOMAIN calls[1].args.filters = {"exited"}
    /\ calls[1].args.filters["exited"] = 0

\* C11: in log streaming a fault before the first chunk (of the container
\* lookup, of the logs call, or of the first pull of the source) gives a
\* classified error outcome, 404 or 500, and no stream with a diagnostic chunk
C11_EarlyFaultClassified ==
    (/\ route = "stream_logs"
     /\ \/ raised # <<>>
        \/ Interrupted /\ source.chunks = <<>>)
    => /\ response.via = "HTTPException"
       /\ response.status \in {404, 500}
       /\ produced = <<>>

\* the statuses of the taxonomy
TaxonomyStatuses == {400, 404, 409, 500, 503}

\* an engine fault was answered: by a handler, or by the failed probe
FaultOutcome == raised # <<>> \/ probe # None

\* C16 as stated: every fault outcome has a status among 400, 404, 409, 500
\* and 503
C16_ClosedStatusSet ==
    FaultOutcome => response.status \in TaxonomyStatuses

\* C16: every fault outcome has a status among 400, 404, 409, 500 and 503,
\* or 401, which only the login route gives, to an API fault of the engine
C16_ClosedStatusSetWith401 ==
    FaultOutcome =>
        /\ response.status \in TaxonomyStatuses \cup {401}
        /\ response.status = 401 =>
                /\ route = "login_repository"
                /\ IsInstance(raised[1], "APIError")

\* the login route has answered an API fault with 401
C16_Witness ==
    /\ route = "login_repository"
    /\ raised # <<>> /\ raised[1].type = "APIError"
    /\ response = HTTPException(401, <<"Authentication failed: ", raised[1].msg>>)

\* C17: the login route calls the engine login once, with the supplied
\* username and password and the registry, docker.io when none is given; an
\* API fault of the engine is answered 401 "Authentication failed"
C17_LoginFaultIs401 ==
    (route = "login_repository" /\ HandlerRan) =>
        /\ calls = <<EngineCall("login",
                        [username |-> req.username, password |-> req.password,
                         registry |-> IF req.registry = None THEN "docker.io"
                                      ELSE req.registry[1]])>>
        /\ (raised # <<>> /\ IsInstance(raised[1], "APIError")) =>
                /\ response.status = 401
                /\ response.via = "HTTPException"
                /\ Contains(response.detail, "Authentication failed: ")

\* a login with no registry, refused by the engine
C17_Witness ==
    /\ route = "login_repository" /\ HandlerRan
    /\ req.registry = None
    /\ calls[1].args.registry = "docker.io"
    /\ raised # <<>> /\ raised[1].type = "APIError"
    /\ response.status = 401

\* C18: an execution fault of a run is answered 500 with the fault's exit
\* status in the message, by the clause for execution faults and not by the
\* clause for API faults or the one for any other fault
C18_ExecutionFaultIs500 ==
    (/\ route = "run_container" /\ raised # <<>>
     /\ raised[1].type = "ContainerError")
    => /\ response.status = 500
       /\ response.via = "HTTPException"
       /\ Contains(response.detail, ToString(raised[1].exit_status))
       /\ Contains(response.detail, "Container error: ")
       /\ ~Contains(response.detail, "Error running container: ")
       /\ ~Contains(response.detail, "Unexpected error: ")

\* a run has failed with exit status 2
C18_Witness ==
    /\ route = "run_container" /\ raised # <<>>
    /\ raised[1].type = "ContainerError" /\ raised[1].exit_status = 2
    /\ response.status = 500
    /\ Contains(response.detail, "2")

\* C19: once the transport has closed the chunk sequence, no step pulls the
\* source, produces a chunk (a diagnostic chunk included), logs or raises a
\* fault, or changes the response, for as long as the request lasts
C19_DisconnectStops ==
    [][(stream = "closed" /\ pc' # "idle") =>
            UNCHANGED <<stream, pulls, produced, logged, raised, response>>]_vars

\* the caller went away after one chunk of a longer source, and the request
\* has ended
C19_Witness ==
    /\ stream = "closed" /\ pc = "done"
    /\ pulls = 1 /\ Len(source.chunks) >= 2
    /\ produced = <<StreamBytes(source.chunks[1])>>

\* C20: a started log stream goes on until the source ends or raises or the
\* caller disconnects; when the source has ended, every chunk it yielded has
\* been delivered, in order
C20_StreamRunsToEnd ==
    /\ [](stream = "ended" /\ source.ending = "end"
            => produced = ForwardedChunks(source))
    /\ [](stream = "open" => pulls <= Len(source.chunks))
    /\ (stream = "open") ~> (stream \in {"ended", "closed"})

\* a source of two chunks has ended and both were delivered
C20_Witness ==
    /\ stream = "ended" /\ source.ending = "end"
    /\ Len(source.chunks) = 2
    /\ produced = ForwardedChunks(source)

\* C21: the chunks a log stream has produced are the chunks pulled from the
\* source, in order and one for one, a byte chunk as it is and a text chunk
\* encoded to bytes, followed at most by the diagnostic chunk
C21_ChunksInOrder ==
    (route = "stream_logs" /\ stream # "none") =>
        LET n == IF pulls < Len(source.chunks) THEN pulls ELSE Len(source.chunks)
        IN  /\ Len(produced) \in {n, n + 1}
            /\ \A i \in 1..n :
                    produced[i] = IF source.chunks[i].t = "bytes"
                                  THEN source.chunks[i].data
                                  ELSE Utf8Encode(source.chunks[i].data)
            /\ Len(produced) = n + 1 =>
                    /\ produced[n + 1] = Diagnostic
                    /\ source.ending = "raise" /\ n = Len(source.chunks)

\* a byte chunk then a text chunk of a two-byte character were delivered
C21_Witness ==
    /\ route = "stream_logs" /\ stream = "ended"
    /\ source.chunks = <<BytePart(<<97, 10>>), StrPart(<<"e'">>)>>
    /\ produced = <<<<97, 10>>, <<195, 169>>>>

\* the text a batch payload holds, whatever its shape: its parts joined,
\* byte parts decoded after joining
WholeText(logs) ==
    LET whole == Concat([i \in 1..Len(logs.parts) |-> logs.parts[i].data])
    IN  IF logs.parts[1].t = "bytes" THEN Utf8Decode(whole) ELSE whole

\* the payload's content is text: its bytes, joined, are valid UTF-8
HoldsText(logs) ==
    /\ logs.shape \in {"bytes", "str", "iter"}
    /\ logs.parts # <<>>
    /\ logs.parts[1].t = "bytes" =>
            Utf8Valid(Concat([i \in 1..Len(logs.parts) |-> logs.parts[i].data]))

\* C22: batch log retrieval gives the lines of the text the payload holds,
\* the same for a string, a byte block and an iterable of byte or of text
\* parts holding that text, with no empty last line after a final terminator
C22_SameLinesEveryShape ==
    (pc = "batched" /\ HoldsText(logs_in[1])) =>
        /\ response = Returned(200)
        /\ lines = splitlines(WholeText(logs_in[1]))
        /\ LET text == WholeText(logs_in[1])
                ends == {k \in 1..Len(text) : text[k] \in {"\n", "\r"}}
                open == text # <<>> /\ Len(text) \notin ends
            IN  Len(lines) <= Cardinality(ends) + (IF open THEN 1 ELSE 0)

\* C23: every route is registered: a request to a pod or volume route is
\* not answered by a routing 404 but reaches its handler, whose success is
\* 200 for a list or an inspect, 201 for a create, 204 for a delete
C23_EveryRouteRegistered ==
    (pc \in {"exit", "done"} /\ route \in PodRoutes \cup VolumeRoutes) =>
        /\ response # RouterNotFound
        /\ pings = 1
        /\ (probe = None /\ raised = <<>>) =>
                response = Returned(
                    CASE route \in {"create_pod", "create_volume"} -> 201
                      [] route \in {"delete_pod", "delete_volume"} -> 204
                      [] OTHER -> 200)

\* C24: within a request no engine operation is invoked twice, failed or
\* not, and a request that acquired a session has probed the engine once
C24_NoRetry ==
    /\ \A i, j \in 1..Len(calls) : i # j => calls[i].op # calls[j].op
    /\ pings <= 1
    /\ opened = 1 => pings = 1
    /\ raised # <<>> => calls[Len(calls)].op \notin {calls[i].op : i \in 1..Len(calls) - 1}

\* the engine refused a list of containers, which was asked for once
C24_Witness ==
    /\ route = "list_containers" /\ pings = 1
    /\ raised # <<>> /\ raised[1].type = "APIError"
    /\ Len(calls) = 1 /\ calls[1].op = "containers.list"

\* C25: a fault classified into an outcome, by a handler or by the failed
\* probe, has been logged exactly once when the outcome is returned
C25_ClassifiedLoggedOnce ==
    (/\ pc \in {"exit", "done"}
     /\ raised # <<>> \/ probe # None
     /\ response.via = "HTTPException")
    => logged = 1

\* the requests in flight, and those whose handler holds a client
InFlight == {q \in Requesters : inflight[q].pc # "idle"}
Holding == {q \in Requesters : inflight[q].pc \in {"handler", "exit"}}

\* C26: with several requests in flight, no client is held or used by two
\* requests, there are no more open clients than requests in flight, and a
\* client stays open until the request that holds it releases it
C26_OwnConnection ==
    /\ \A c \in 1..Len(clients) : clients[c].users \subseteq {clients[c].owner}
    /\ \A q1, q2 \in Holding : q1 # q2 => inflight[q1].held # inflight[q2].held
    /\ Cardinality({c \in 1..Len(clients) : clients[c].open})
            <= Cardinality(InFlight)
    /\ \A q \in Holding :
            /\ clients[inflight[q].held].open
            /\ clients[inflight[q].held].owner = q

\* one request has released its client while the other still holds its own
C26_Witness ==
    /\ inflight[1].pc = "done" /\ inflight[2].pc = "exit"
    /\ ~clients[inflight[1].held].open
    /\ clients[inflight[1].held].users = {1}
    /\ clients[inflight[2].held].open
    /\ clients[inflight[2].held].users = {2}

\* a false flag, an empty string, an empty list or map
FalsyValue(p, v) ==
    CASE p \in BoolParams -> v = FALSE
      [] p \in StrParams -> v = ""
      [] OTHER -> v = <<>>

\* C27: a plain boolean, string or collection run parameter is a key of the
\* engine run call exactly when it was supplied with a truthy value, and
\* then with that value; one supplied as false or empty changes nothing in
\* the call
C27_TruthyForwarded ==
    (route = "run_container" /\ calls # <<>>) =>
        LET args == calls[1].args
            given == req.supplied
        IN  /\ \A p \in TruthyParams :
                /\ EngineKey(p) \in DOMAIN args
                        <=> (p \in DOMAIN given /\ ~FalsyValue(p, given[p]))
                /\ EngineKey(p) \in DOMAIN args => args[EngineKey(p)] = given[p]
            /\ (\A p \in DOMAIN given : p \in TruthyParams /\ FalsyValue(p, given[p]))
                => DOMAIN args = {"image", "command", "remove"}

\* a run with an empty container name: the call has no name
C27_Witness ==
    /\ route = "run_container" /\ calls # <<>>
    /\ DOMAIN req.supplied = {"container_name"}
    /\ req.supplied["container_name"] = ""
    /\ DOMAIN calls[1].args = {"image", "command", "remove"}

\* C28: while a log stream still has a chunk, or the source's fault, to
\* pull, the request's engine session has not been released
C28_SessionOutlivesStream ==
    (/\ route = "stream_logs" /\ stream = "open"
     /\ pulls < Len(source.chunks) \/ source.ending = "raise")
    => closed = 0

\* the calls of an image pull, given whether credentials count as supplied:
\* the login is made exactly then, with the credentials, and before the
\* pull; a failed login leaves the pull out; a pull without login carries
\* no credentials; the pull is made at most once
PullAfterLogin(credentials) ==
    LET loginAt == {i \in 1..Len(calls) : calls[i].op = "login"}
        pullAt == {i \in 1..Len(calls) : calls[i].op = "images.pull"}
    IN  /\ loginAt # {} <=> credentials
        /\ Cardinality(loginAt) <= 1
        /\ Cardinality(pullAt) <= 1
        /\ \A i \in loginAt, j \in pullAt : i < j
        /\ \A i \in loginAt :
                /\ calls[i].args.username = req.username
                /\ calls[i].args.password = req.password
        /\ (raised # <<>> /\ calls[Len(calls)].op = "login") => pullAt = {}
        /\ (raised = <<>> \/ calls[Len(calls)].op # "login") => pullAt # {}
        /\ \A j \in pullAt :
                calls[j].args.auth_config =
                    IF loginAt = {} THEN None
                    ELSE Some([username |-> req.username[1],
                               password |-> req.password[1]])

\* C29 as stated: in image pull the login is invoked exactly when username
\* and password are both supplied, before the pull, which a failed login
\* prevents; without login the pull has no credentials; one pull at most
C29_LoginIffSupplied ==
    (route = "pull_image" /\ HandlerRan) =>
        PullAfterLogin(req.username # None /\ req.password # None)

\* C29: in image pull the login is invoked exactly when username and
\* password are both supplied and neither is empty, before the pull, which
\* a failed login prevents; without login the pull has no credentials; one
\* pull at most
C29_LoginIffNonEmpty ==
    (route = "pull_image" /\ HandlerRan) =>
        PullAfterLogin(/\ req.username # None /\ req.username # Some("")
                       /\ req.password # None /\ req.password # Some(""))

\* a pull with credentials whose login the engine refused: no pull was made
C29_Witness ==
    /\ route = "pull_image" /\ HandlerRan
    /\ req.username = Some("u") /\ req.password = Some("p")
    /\ Len(calls) = 1 /\ calls[1].op = "login"
    /\ raised # <<>>

\* the engine's get and remove of the resource kind a route deletes
GetOp(rt) ==
    CASE rt = "delete_container" -> "containers.get"
      [] rt = "delete_pod" -> "pods.get"
      [] OTHER -> "volumes.get"
RemoveOp(rt) ==
    CASE rt = "delete_container" -> "container.remove"
      [] rt = "delete_pod" -> "pod.remove"
      [] OTHER -> "volume.remove"

\* C30: container, pod and volume delete get the resource, then remove it:
\* the remove comes only after a successful get of the same identifier,
\* with the caller's force flag, false when none is given; a failed get
\* leaves the remove out and its fault decides the outcome
C30_GetBeforeRemove ==
    (pc = "deleted") =>
        /\ Len(calls) \in {1, 2}
        /\ calls[1] = EngineCall(GetOp(route), [id |-> req.id])
        /\ Len(calls) = 2 =>
                calls[2] = EngineCall(RemoveOp(route),
                    [id |-> req.id,
                     force |-> IF req.force = None THEN FALSE ELSE req.force[1]])
        /\ Len(calls) = 1 =>
                /\ raised # <<>>
                /\ response.via # "return"
                /\ raised[1].type = "NotFound" =>
                        response.status = 404 /\ Contains(response.detail, req.id)
        /\ raised = <<>> => Len(calls) = 2 /\ response = Returned(204)

\* a pod whose get failed for want of the pod: no remove, 404
C30_Witness ==
    /\ pc = "deleted" /\ route = "delete_pod"
    /\ req.force = None
    /\ calls = <<EngineCall("pods.get", [id |-> req.id])>>
    /\ raised # <<>> /\ raised[1].type = "NotFound"
    /\ response.status = 404

============================================================================
